---- MODULE Spec2Model ----
(***************************************************************************)
(* A model of the restricted Python executor of                            *)
(* src/local_executor/executor.py: the AST evaluator evaluate_ast, the     *)
(* top-level driver evaluate_python_code and the facade                    *)
(* LocalPythonExecutor (__call__, send_variables, static_tools).           *)
(*                                                                         *)
(* The evaluator is a recursive operator over syntax trees that threads    *)
(* an environment (the heap of state dictionaries, the heap of counter     *)
(* dictionaries, and observation counters) and yields either a value or a  *)
(* raised Python exception.  evaluate_python_code is stepped one           *)
(* top-level statement at a time.                                          *)
(***************************************************************************)
EXTENDS Integers, Sequences, FiniteSets, TLC

\* ---------------------------------------------------------------- bounds
\* MAX_OPERATIONS and MAX_WHILE_ITERATIONS are the program's ceilings
\* (executor.py:25-26: 10000000 and 1000000) scaled down so that short programs reach them.
MAX_OPERATIONS == 14

MAX_WHILE_ITERATIONS == 2

\* DEFAULT_MAX_LEN_OUTPUT (executor.py:24: 50000) scaled down.
DEFAULT_MAX_LEN_OUTPUT == 2

\* How many calls of the executor and of send_variables one behaviour makes.
MaxRuns == 2

MaxSends == 1

\* How many run_python requests the clients of the MCP server send.
MaxRequests == 2

\* ---------------------------------------------------------------- values
\* Python values are records tagged by t.
None == [t |-> "none"]

Unbound == [t |-> "unbound"]

IntV(n) == [t |-> "int", v |-> n]

BoolV(b) == [t |-> "bool", v |-> b]

\* A str is the sequence of its characters.
StrV(s) == [t |-> "str", v |-> s]

TupleV(s) == [t |-> "tuple", v |-> s]

\* A host callable of static_tools.
Tool(name) == [t |-> "tool", name |-> name]

\* An exception class of ERRORS.
ErrType(name) == [t |-> "errtype", name |-> name]

\* A {"counter": n} dictionary: the object with identity id in the heap of cells.
Cell(id) == [t |-> "cell", id |-> id]

\* A PrintContainer and its value attribute.
PrintContainer(s) == [t |-> "printc", value |-> s]

\* new_func: the function object a FunctionDef yields; frame is the state
\* dictionary the FunctionDef was evaluated in (the free variable `state`).
Closure(def, frame) == [t |-> "closure", def |-> def, frame |-> frame]

\* ---------------------------------------------------------------- names
\* The identifiers that occur in the programs and the two keys
\* evaluate_python_code keeps in the state dictionary.
VarNames ==
    {"x", "y", "a", "f", "t", "helper", "final_answer", "math", "self", "__class__",
     "KeyError", "eval", "_operations_count", "_print_outputs"}

\* ERRORS: the names of the exception classes of builtins (a few of them).
ERRORS == {"ValueError", "KeyError"}

\* BASE_BUILTIN_MODULES.
BASE_BUILTIN_MODULES ==
    {"math", "random", "datetime", "time", "json", "re", "string",
     "collections", "itertools", "functools", "operator"}

\* The empty state dictionary.
EmptyState == [n \in VarNames |-> Unbound]

\* ---------------------------------------------------------------- exceptions
\* A raised Python exception: its class, its message and (for ReturnException
\* and FinalAnswerException) its value attribute.
Exc(type, msg) == [type |-> type, msg |-> msg, value |-> None]

ExcV(type, v) == [type |-> type, msg |-> "", value |-> v]

NoExc == Exc("", "")

\* The classes that derive from Exception, which `except Exception` catches.
\* All of these do; SystemExit and KeyboardInterrupt (raised by a tool) do not.
IsException(e) == e.type \notin {"SystemExit", "KeyboardInterrupt"}

\* The result of one evaluation: the environment after it and either the value or
\* the exception raised.
Ok(env, v) == [env |-> env, ok |-> TRUE, v |-> v, exc |-> NoExc]

Raise(env, e) == [env |-> env, ok |-> FALSE, v |-> None, exc |-> e]

\* ---------------------------------------------------------------- syntax trees
\* ast nodes are records tagged by k, the node class.
Constant(v) == [k |-> "Constant", value |-> v]

Name(id) == [k |-> "Name", id |-> id]

BinOp(left, op, right) == [k |-> "BinOp", left |-> left, op |-> op, right |-> right]

\* A comparison with one operator and one comparator.
Compare(left, op, right) == [k |-> "Compare", left |-> left, ops |-> <<op>>, comparators |-> <<right>>]

\* keywords: a sequence of [arg, value] records.
Call(func, args, keywords) == [k |-> "Call", func |-> func, args |-> args, keywords |-> keywords]

Assign(targets, value) == [k |-> "Assign", targets |-> targets, value |-> value]

\* A Tuple node: an assignment target (elts are Name nodes) or, as an expression,
\* a node evaluate_ast has no case for.
TupleNode(elts) == [k |-> "Tuple", elts |-> elts]

Expr(value) == [k |-> "Expr", value |-> value]

If(test, body, orelse) == [k |-> "If", test |-> test, body |-> body, orelse |-> orelse]

For(target, iter, body) == [k |-> "For", target |-> target, iter |-> iter, body |-> body]

While(test, body) == [k |-> "While", test |-> test, body |-> body]

Break == [k |-> "Break"]

Continue == [k |-> "Continue"]

\* hasValue tells `return e` from a bare `return`.
Return(hasValue, value) == [k |-> "Return", hasValue |-> hasValue, value |-> value]

\* args: the parameter names; defaults: the default expressions of the trailing
\* parameters; vararg, kwarg: the name of *args, **kwargs or "" for none.
FunctionDef(name, args, defaults, vararg, kwarg, body) ==
    [k |-> "FunctionDef", name |-> name, args |-> args, defaults |-> defaults,
     vararg |-> vararg, kwarg |-> kwarg, body |-> body]

\* Node classes evaluate_ast has no case for.
Import(module) == [k |-> "Import", module |-> module]

AugAssign(target, op, value) == [k |-> "AugAssign", target |-> target, op |-> op, value |-> value]

ListNode(elts) == [k |-> "List", elts |-> elts]

\* ---------------------------------------------------------------- environment
\* What an evaluation threads: frames, the heap of state dictionaries (frame 1 is
\* the session's state); cells, the heap of counter dictionaries; tools, the keys
\* of static_tools.  The other fields observe the evaluation: nodes counts the
\* nodes evaluated in the call, printed is the text the program printed, whileRuns
\* is the largest number of body runs of one While evaluation, finalAt is the
\* value of nodes when the final_answer tool was called (-1 before), written is
\* the set of names bound in the session's state by the statement under way,
\* assigned the names bound there by the statements of the call that completed.
Observed ==
    [nodes |-> 0, printed |-> <<>>, whileRuns |-> 0, finalAt |-> -1, written |-> {},
     assigned |-> {}]

ObsOf(env) ==
    [nodes |-> env.nodes, printed |-> env.printed, whileRuns |-> env.whileRuns,
     finalAt |-> env.finalAt, written |-> env.written, assigned |-> env.assigned]

NewEnv(frames, cells, tools, obs) ==
    [frames |-> frames, cells |-> cells, tools |-> tools,
     nodes |-> obs.nodes, printed |-> obs.printed, whileRuns |-> obs.whileRuns,
     finalAt |-> obs.finalAt, written |-> {}, assigned |-> obs.assigned \cup obs.written]

Lookup(env, cur, id) == env.frames[cur][id]

\* state[id] = v in the state dictionary cur.
Bind(env, cur, id, v) ==
    [env EXCEPT !.frames[cur][id] = v,
                !.written = IF cur = 1 THEN @ \cup {id} ELSE @]

\* evaluate_ast, lines 185-189: the step counter lives in the state dictionary
\* under "_operations_count"; setdefault binds a fresh counter when the key is
\* missing, and a value that is no dictionary cannot be subscripted.
Tick(env, cur) ==
    LET oc == Lookup(env, cur, "_operations_count")
        fresh == Len(env.cells) + 1
        e1 == IF oc = Unbound
              THEN [Bind(env, cur, "_operations_count", Cell(fresh))
                     EXCEPT !.cells = Append(env.cells, 0)]
              ELSE env
        c == Lookup(e1, cur, "_operations_count")
    IN  IF c.t # "cell"
        THEN Raise(e1, Exc("TypeError", "object is not subscriptable"))
        ELSE IF e1.cells[c.id] >= MAX_OPERATIONS
        THEN Raise(e1, Exc("InterpreterError", "Reached the max number of operations"))
        ELSE Ok([e1 EXCEPT !.cells[c.id] = @ + 1, !.nodes = @ + 1], None)

\* Python's truth value of v (PrintContainer defines __len__).
Truthy(v) ==
    CASE v.t = "none" -> FALSE
      [] v.t = "bool" -> v.v
      [] v.t = "int" -> v.v # 0
      [] v.t = "str" -> Len(v.v) > 0
      [] v.t = "tuple" -> Len(v.v) > 0
      [] v.t = "printc" -> Len(v.value) > 0
      [] OTHER -> TRUE

\* bool is a subclass of int.
IsNum(v) == v.t \in {"int", "bool"}

NumOf(v) == IF v.t = "bool" THEN (IF v.v THEN 1 ELSE 0) ELSE v.v

\* evaluate_ast, lines 204-229: the binary operators (Add, Sub, Mult of the
\* twelve), on the operand types Python defines them for.
BinOpApply(env, op, l, r) ==
    IF op \notin {"Add", "Sub", "Mult"}
    THEN Raise(env, Exc("InterpreterError", "Binary operation is not supported"))
    ELSE IF IsNum(l) /\ IsNum(r)
    THEN Ok(env, IntV(CASE op = "Add" -> NumOf(l) + NumOf(r)
                        [] op = "Sub" -> NumOf(l) - NumOf(r)
                        [] op = "Mult" -> NumOf(l) * NumOf(r)))
    ELSE IF op = "Add" /\ l.t = r.t /\ l.t \in {"str", "tuple"}
    THEN Ok(env, [t |-> l.t, v |-> l.v \o r.v])
    ELSE Raise(env, Exc("TypeError", "unsupported operand type(s)"))

\* evaluate_ast, lines 247-268: Eq, NotEq and Lt of the comparison operators.
\* Dictionaries compare by content, numbers by value; Lt is modelled on numbers,
\* the only values the programs below order.
CompareApply(env, op, l, r) ==
    LET eq == IF IsNum(l) /\ IsNum(r) THEN NumOf(l) = NumOf(r)
              ELSE IF l.t = "cell" /\ r.t = "cell" THEN env.cells[l.id] = env.cells[r.id]
              ELSE l = r
    IN  CASE op = "Eq" -> Ok(env, BoolV(eq))
          [] op = "NotEq" -> Ok(env, BoolV(~eq))
          [] op = "Lt" -> IF IsNum(l) /\ IsNum(r)
                          THEN Ok(env, BoolV(NumOf(l) < NumOf(r)))
                          ELSE Raise(env, Exc("TypeError", "'<' not supported"))
          [] OTHER -> Raise(env, Exc("InterpreterError", "Unsupported comparison operator"))

\* ---------------------------------------------------------------- conversions
Digit(d) == <<"0", "1", "2", "3", "4", "5", "6", "7", "8", "9">>[d + 1]

RECURSIVE Digits(_)
\* The decimal digits of a natural number.
Digits(n) == IF n < 10 THEN <<Digit(n)>> ELSE Digits(n \div 10) \o <<Digit(n % 10)>>

\* str(v): the text of a value.  Objects without a __str__ of their own print as
\* an opaque "<...>" text.
StrOf(v) ==
    CASE v.t = "str" -> v.v
      [] v.t = "int" -> IF v.v < 0 THEN <<"-">> \o Digits(-v.v) ELSE Digits(v.v)
      [] v.t = "none" -> <<"N", "o", "n", "e">>
      [] v.t = "bool" -> IF v.v THEN <<"T", "r", "u", "e">> ELSE <<"F", "a", "l", "s", "e">>
      [] v.t = "printc" -> v.value
      [] OTHER -> <<"<", ".", ".", ".", ">">>

\* truncate_content, lines 154-158.
truncate_content(content, max_length) ==
    IF Len(content) <= max_length
    THEN content
    ELSE SubSeq(content, 1, max_length) \o <<".", ".", ".">>

\* hasattr(value, "__iter__") and not isinstance(value, (str, bytes)), for a
\* value that is no tuple (lines 303 and 337).
HasIterNotStr(v) == v.t \in {"cell", "dict"}

\* What iterating v produces, for the iterable values: a tuple's elements, a
\* str's characters, a dictionary's keys.
IsIterable(v) == v.t \in {"tuple", "str", "cell", "dict"}

IterItems(v) ==
    CASE v.t = "tuple" -> v.v
      [] v.t = "str" -> [i \in 1..Len(v.v) |-> StrV(<<v.v[i]>>)]
      [] v.t = "cell" -> <<StrV(<<"c", "o", "u", "n", "t", "e", "r">>)>>
      [] v.t = "dict" -> [i \in 1..Len(v.v) |-> v.v[i].key]

\* ---------------------------------------------------------------- tools
\* The host's callables.  print is BASE_PYTHON_TOOLS["print"] (line 43),
\* `lambda *args: None`; the others stand for tools of the embedding host:
\* helper returns a number, boom raises, final_answer returns its payload,
\* KeyError is a tool that bears the name of an exception class, and eval is
\* Python's builtins.eval.
HostTools == {"print", "helper", "boom", "final_answer", "KeyError", "eval"}

\* DANGEROUS_FUNCTIONS, lines 97-107: the qualified names as <<module, name>>.
\* Nothing in the executor refers to the list.
DANGEROUS_FUNCTIONS ==
    {<<"builtins", "compile">>, <<"builtins", "eval">>, <<"builtins", "exec">>,
     <<"builtins", "globals">>, <<"builtins", "locals">>, <<"builtins", "__import__">>,
     <<"os", "popen">>, <<"os", "system">>, <<"posix", "system">>}

\* The qualified name of the callable a host registers under name.
QualifiedName(name) == <<IF name = "eval" THEN "builtins" ELSE "host", name>>

\* builtins.eval(source) for the sources given to it, texts of decimal digits.
RECURSIVE NumberOf(_)
NumberOf(chars) ==
    IF chars = <<>> THEN 0
    ELSE 10 * NumberOf(SubSeq(chars, 1, Len(chars) - 1))
             + (CHOOSE d \in 0..9 : Digit(d) = chars[Len(chars)])

\* The text print(*args) is asked to print: the arguments' str, separated by a
\* space, and a newline.
RECURSIVE PrintText(_, _)
PrintText(args, i) ==
    IF i > Len(args) THEN <<"\n">>
    ELSE (IF i > 1 THEN <<" ">> ELSE <<>>) \o StrOf(args[i]) \o PrintText(args, i + 1)

\* The host's own final_answer(answer), which evaluate_python_code wraps.
previous_final_answer(answer) == TupleV(<<answer>>)

\* A call of static_tools[name] with positional args and keyword arguments kwargs.
\* final_answer is the wrapper of lines 465-466, which raises
\* FinalAnswerException(previous_final_answer(answer)).
ToolApply(env, name, args, kwargs) ==
    CASE name = "print" ->
            IF Len(kwargs) > 0
            THEN Raise(env, Exc("TypeError", "got an unexpected keyword argument"))
            ELSE Ok([env EXCEPT !.printed = @ \o PrintText(args, 1)], None)
      [] name \in {"helper", "KeyError"} -> Ok(env, IntV(7))
      [] name = "boom" -> Raise(env, Exc("KeyError", "k"))
      [] name = "eval" ->
            IF Len(args) = 1 /\ Len(kwargs) = 0 /\ args[1].t = "str" /\ Len(args[1].v) > 0
               /\ \A j \in 1..Len(args[1].v) : \E d \in 0..9 : Digit(d) = args[1].v[j]
            THEN Ok(env, IntV(NumberOf(args[1].v)))
            ELSE Raise(env, Exc("TypeError", "eval() arguments"))
      [] name = "final_answer" ->
            LET called == [env EXCEPT !.finalAt = env.nodes]
            IN  IF Len(args) = 1 /\ Len(kwargs) = 0
                THEN Raise(called, ExcV("FinalAnswerException", previous_final_answer(args[1])))
                ELSE IF Len(args) = 0 /\ Len(kwargs) = 1 /\ kwargs[1].key = "answer"
                THEN Raise(called, ExcV("FinalAnswerException", previous_final_answer(kwargs[1].value)))
                ELSE Raise(env, Exc("TypeError", "final_answer() arguments"))

\* ---------------------------------------------------------------- evaluate_ast
RECURSIVE Eval(_, _, _)
RECURSIVE EvalList(_, _, _, _, _)
RECURSIVE EvalKeywords(_, _, _, _, _)
RECURSIVE EvalBody(_, _, _, _, _)
RECURSIVE LoopBody(_, _, _, _, _)
RECURSIVE ForLoop(_, _, _, _, _, _)
RECURSIVE WhileLoop(_, _, _, _)
RECURSIVE AssignTargets(_, _, _, _, _)
RECURSIVE new_func(_, _, _, _)

\* The name looked up in static_tools before the state.
EvalNameToolsFirst(node, env, cur) ==
    IF node.id \in env.tools THEN Ok(env, Tool(node.id))
    ELSE IF node.id \in VarNames /\ Lookup(env, cur, node.id) # Unbound
    THEN Ok(env, Lookup(env, cur, node.id))
    ELSE IF node.id \in ERRORS THEN Ok(env, ErrType(node.id))
    ELSE Raise(env, Exc("InterpreterError", "The variable is not defined"))

\* Lines 194-200: a name resolves in the state, then in static_tools, then in ERRORS.
EvalName(node, env, cur) ==
    IF node.id \in VarNames /\ Lookup(env, cur, node.id) # Unbound
    THEN Ok(env, Lookup(env, cur, node.id))
    ELSE IF node.id \in env.tools THEN Ok(env, Tool(node.id))
    ELSE IF node.id \in ERRORS THEN Ok(env, ErrType(node.id))
    ELSE Raise(env, Exc("InterpreterError", "The variable is not defined"))

\* func(*args, **kwargs), line 293, by the kind of callable.
Apply(env, func, args, kwargs) ==
    CASE func.t = "tool" -> ToolApply(env, func.name, args, kwargs)
      [] func.t = "closure" -> new_func(env, func, args, kwargs)
      [] func.t = "errtype" -> Ok(env, [t |-> "excinst", name |-> func.name])
      [] OTHER -> Raise(env, Exc("TypeError", "object is not callable"))

\* Lines 287-293.
EvalCall(node, env, cur) ==
    LET f == Eval(node.func, env, cur)
    IN  IF ~f.ok THEN f
        ELSE LET a == EvalList(node.args, 1, f.env, cur, <<>>)
             IN  IF ~a.ok THEN a
                 ELSE LET kw == EvalKeywords(node.keywords, 1, a.env, cur, <<>>)
                      IN  IF ~kw.ok THEN kw
                          ELSE Apply(kw.env, f.v, a.v, kw.v)

\* The unpacking of lines 301-313 (Assign) and 335-347 (For): value bound to the
\* names of a Tuple target, with no look at static_tools.  The result's v is the
\* value after the conversion to a tuple.
RECURSIVE BindElts(_, _, _, _, _)
BindElts(elts, i, env, cur, items) ==
    IF i > Len(elts) THEN Ok(env, None)
    ELSE IF elts[i].k = "Name"
    THEN BindElts(elts, i + 1, Bind(env, cur, elts[i].id, items[i]), cur, items)
    ELSE Raise(env, Exc("InterpreterError", "Unsupported assignment target"))

Unpack(target, env, cur, value) ==
    IF value.t # "tuple" /\ ~HasIterNotStr(value)
    THEN Raise(env, Exc("InterpreterError", "Cannot unpack non-tuple value"))
    ELSE LET tup == IF value.t = "tuple" THEN value ELSE TupleV(IterItems(value))
         IN  IF Len(target.elts) # Len(tup.v)
             THEN Raise(env, Exc("InterpreterError", "Cannot unpack tuple of wrong size"))
             ELSE LET b == BindElts(target.elts, 1, env, cur, tup.v)
                  IN  IF b.ok THEN Ok(b.env, tup) ELSE b

\* Lines 296-316: the targets of an Assign in order; a Name target that is a key
\* of static_tools is refused.
AssignTargets(targets, i, env, cur, value) ==
    IF i > Len(targets) THEN Ok(env, value)
    ELSE LET target == targets[i]
         IN  CASE target.k = "Name" ->
                     IF target.id \in env.tools
                     THEN Raise(env, Exc("InterpreterError", "Cannot assign to name: would erase the existing tool"))
                     ELSE AssignTargets(targets, i + 1, Bind(env, cur, target.id, value), cur, value)
               [] target.k = "Tuple" ->
                     LET u == Unpack(target, env, cur, value)
                     IN  IF u.ok THEN AssignTargets(targets, i + 1, u.env, cur, u.v) ELSE u
               [] OTHER -> Raise(env, Exc("InterpreterError", "Unsupported assignment target"))

\* Lines 295-316.
EvalAssign(node, env, cur) ==
    LET value == Eval(node.value, env, cur)
    IN  IF value.ok THEN AssignTargets(node.targets, 1, value.env, cur, value.v) ELSE value

\* Lines 320-328.
EvalIf(node, env, cur) ==
    LET test_result == Eval(node.test, env, cur)
    IN  IF ~test_result.ok THEN test_result
        ELSE IF Truthy(test_result.v)
        THEN EvalBody(node.body, 1, test_result.env, cur, None)
        ELSE EvalBody(node.orelse, 1, test_result.env, cur, None)

\* Lines 330-357.
EvalFor(node, env, cur) ==
    LET iter_value == Eval(node.iter, env, cur)
    IN  IF ~iter_value.ok THEN iter_value
        ELSE IF ~IsIterable(iter_value.v)
        THEN Raise(iter_value.env, Exc("TypeError", "object is not iterable"))
        ELSE ForLoop(node, IterItems(iter_value.v), 1, iter_value.env, cur, None)

\* The function object bound to the function's name as well.
EvalFunctionDefBinds(node, env, cur) ==
    Ok(Bind(env, cur, node.name, Closure(node, cur)), Closure(node, cur))

\* Lines 380-415: the FunctionDef case makes the function object new_func, which
\* keeps the node and the state dictionary it was made in, and returns it; the
\* state is not written.
EvalFunctionDef(node, env, cur) == Ok(env, Closure(node, cur))

\* Lines 376-379.
EvalReturn(node, env, cur) ==
    IF node.hasValue
    THEN LET r == Eval(node.value, env, cur)
         IN  IF r.ok THEN Raise(r.env, ExcV("ReturnException", r.v)) ELSE r
    ELSE Raise(env, ExcV("ReturnException", None))

\* The node classes with a case in evaluate_ast that this model covers.
Supported ==
    {"Constant", "Name", "BinOp", "Compare", "Call", "Assign", "Expr", "If",
     "For", "While", "Break", "Continue", "Return", "FunctionDef"}

\* evaluate_ast below the step counter, lines 191-417.
EvalNode(node, env, cur) ==
    CASE node.k = "Constant" -> Ok(env, node.value)
      [] node.k = "Name" -> EvalName(node, env, cur)
      [] node.k = "BinOp" ->
            LET left == Eval(node.left, env, cur)
            IN  IF ~left.ok THEN left
                ELSE LET right == Eval(node.right, left.env, cur)
                     IN  IF ~right.ok THEN right
                         ELSE BinOpApply(right.env, node.op, left.v, right.v)
      [] node.k = "Compare" ->
            LET left == Eval(node.left, env, cur)
            IN  IF ~left.ok THEN left
                ELSE LET right == Eval(node.comparators[1], left.env, cur)
                     IN  IF ~right.ok THEN right
                         ELSE CompareApply(right.env, node.ops[1], left.v, right.v)
      [] node.k = "Call" -> EvalCall(node, env, cur)
      [] node.k = "Assign" -> EvalAssign(node, env, cur)
      [] node.k = "Expr" -> Eval(node.value, env, cur)
      [] node.k = "If" -> EvalIf(node, env, cur)
      [] node.k = "For" -> EvalFor(node, env, cur)
      [] node.k = "While" -> WhileLoop(node, env, cur, 0)
      [] node.k = "Break" -> Raise(env, Exc("BreakException", ""))
      [] node.k = "Continue" -> Raise(env, Exc("ContinueException", ""))
      [] node.k = "Return" -> EvalReturn(node, env, cur)
      [] node.k = "FunctionDef" -> EvalFunctionDef(node, env, cur)
      [] node.k \notin Supported -> Raise(env, Exc("InterpreterError", "is not supported"))

\* evaluate_ast: count the node (lines 185-189), then evaluate it.
Eval(node, env, cur) ==
    LET counted == Tick(env, cur)
    IN  IF counted.ok THEN EvalNode(node, counted.env, cur) ELSE counted

\* The elements of a list of expressions, left to right (lines 288, 385).
EvalList(nodes, i, env, cur, acc) ==
    IF i > Len(nodes) THEN Ok(env, acc)
    ELSE LET r == Eval(nodes[i], env, cur)
         IN  IF r.ok THEN EvalList(nodes, i + 1, r.env, cur, Append(acc, r.v)) ELSE r

\* The keyword arguments of a call as the items of a dictionary (lines 289-292).
EvalKeywords(keywords, i, env, cur, acc) ==
    IF i > Len(keywords) THEN Ok(env, acc)
    ELSE LET r == Eval(keywords[i].value, env, cur)
         IN  IF r.ok
             THEN EvalKeywords(keywords, i + 1, r.env, cur,
                               Append(acc, [key |-> keywords[i].arg, value |-> r.v]))
             ELSE r

\* `for node in body: result = evaluate_ast(node, ...)` (lines 322-327, 408-409):
\* the statements in order, an exception ending them.
EvalBody(nodes, i, env, cur, result) ==
    IF i > Len(nodes) THEN Ok(env, result)
    ELSE LET r == Eval(nodes[i], env, cur)
         IN  IF r.ok THEN EvalBody(nodes, i + 1, r.env, cur, r.v) ELSE r

\* The body going on with its next statement after a Break or a Continue.
LoopBodyRunsOn(body, j, env, cur, result) ==
    IF j > Len(body) THEN Ok(env, result)
    ELSE LET r == Eval(body[j], env, cur)
         IN  IF r.ok THEN LoopBody(body, j + 1, r.env, cur, r.v)
             ELSE IF r.exc.type \in {"BreakException", "ContinueException"}
             THEN LoopBody(body, j + 1, r.env, cur, result)
             ELSE [r EXCEPT !.v = result]

\* The body of a loop (lines 350-356, 361-367).  A raised result carries in v the
\* value of the last statement that completed, which a For loop returns on Break.
LoopBody(body, j, env, cur, result) ==
    IF j > Len(body) THEN Ok(env, result)
    ELSE LET r == Eval(body[j], env, cur)
         IN  IF r.ok THEN LoopBody(body, j + 1, r.env, cur, r.v)
             ELSE [r EXCEPT !.v = result]

\* Lines 332-357: the elements from the i-th on.
ForLoop(node, items, i, env, cur, result) ==
    IF i > Len(items) THEN Ok(env, result)
    ELSE LET value == items[i]
             bound == CASE node.target.k = "Name" -> Ok(Bind(env, cur, node.target.id, value), None)
                        [] node.target.k = "Tuple" -> Unpack(node.target, env, cur, value)
                        [] OTHER -> Raise(env, Exc("InterpreterError", "Unsupported assignment target"))
         IN  IF ~bound.ok THEN bound
             ELSE LET b == LoopBody(node.body, 1, bound.env, cur, result)
                  IN  IF b.ok THEN ForLoop(node, items, i + 1, b.env, cur, b.v)
                      ELSE IF b.exc.type = "BreakException" THEN Ok(b.env, b.v)
                      ELSE IF b.exc.type = "ContinueException"
                      THEN ForLoop(node, items, i + 1, b.env, cur, b.v)
                      ELSE b

\* The ceiling tested one body run late.
IterationsExceededLate(iterations) == iterations > MAX_WHILE_ITERATIONS + 1

\* Line 369, after `iterations += 1`: the loop gives up when the count of
\* completed body runs is above the ceiling.
IterationsExceeded(iterations) == iterations > MAX_WHILE_ITERATIONS

\* Lines 359-371, with `iterations` body runs completed.
WhileLoop(node, env, cur, iterations) ==
    LET test == Eval(node.test, env, cur)
    IN  IF ~test.ok THEN test
        ELSE IF ~Truthy(test.v) THEN Ok(test.env, None)
        ELSE LET started == [test.env EXCEPT !.whileRuns =
                                IF iterations + 1 > @ THEN iterations + 1 ELSE @]
                 b == LoopBody(node.body, 1, started, cur, None)
             IN  IF ~b.ok /\ b.exc.type = "BreakException" THEN Ok(b.env, None)
                 ELSE IF ~b.ok /\ b.exc.type # "ContinueException" THEN [b EXCEPT !.v = None]
                 ELSE IF IterationsExceeded(iterations + 1)
                 THEN Raise(b.env, Exc("InterpreterError", "Maximum number of iterations in While loop exceeded"))
                 ELSE WhileLoop(node, b.env, cur, iterations + 1)

\* The copy taken of the session's state, whatever dictionary the function was
\* defined in.
func_stateOfSession(env, func) == env.frames[1]

\* Line 382, `func_state = state.copy()`: state is the dictionary the FunctionDef
\* was evaluated in, as it is when the function is called.
func_state(env, func) == env.frames[func.frame]

\* Lines 381-414: a call of the function object of a FunctionDef.  func_state is
\* a copy of the dictionary the FunctionDef was evaluated in; the defaults are
\* evaluated in that dictionary itself.
new_func(env, func, args, kwargs) ==
    LET expression == func.def
        nf == Len(env.frames) + 1
        copied == [env EXCEPT !.frames = Append(@, func_state(env, func))]
        default_values == EvalList(expression.defaults, 1, copied, func.frame, <<>>)
    IN  IF ~default_values.ok THEN default_values
        ELSE
        LET arg_names == expression.args
            na == Len(arg_names)
            nd == Len(default_values.v)
            npos == IF Len(args) < na THEN Len(args) ELSE na
            s0 == default_values.env.frames[nf]
            s1 == [n \in VarNames |->
                     IF \E i \in 1..npos : arg_names[i] = n
                     THEN args[CHOOSE i \in 1..npos : arg_names[i] = n]
                     ELSE s0[n]]
            s2 == [n \in VarNames |->
                     IF \E i \in 1..Len(kwargs) : kwargs[i].key = n
                     THEN kwargs[CHOOSE i \in 1..Len(kwargs) : kwargs[i].key = n].value
                     ELSE s1[n]]
            s3 == IF expression.vararg # "" THEN [s2 EXCEPT ![expression.vararg] = TupleV(args)] ELSE s2
            s4 == IF expression.kwarg # "" THEN [s3 EXCEPT ![expression.kwarg] = [t |-> "dict", v |-> kwargs]] ELSE s3
            s5 == [n \in VarNames |->
                     IF s4[n] = Unbound /\ \E i \in 1..nd : na - nd + i >= 1 /\ arg_names[na - nd + i] = n
                     THEN default_values.v[CHOOSE i \in 1..nd : na - nd + i >= 1 /\ arg_names[na - nd + i] = n]
                     ELSE s4[n]]
            s6 == IF na > 0 /\ arg_names[1] = "self" /\ Len(args) > 0
                  THEN [s5 EXCEPT !["self"] = args[1],
                                  !["__class__"] = [t |-> "class", of |-> args[1].t]]
                  ELSE s5
            entered == [default_values.env EXCEPT !.frames[nf] = s6]
            body == EvalBody(expression.body, 1, entered, nf, None)
            result == IF body.ok THEN body
                      ELSE IF body.exc.type = "ReturnException" THEN Ok(body.env, body.exc.value)
                      ELSE body
        IN  IF result.ok /\ expression.name = "__init__" THEN Ok(result.env, None) ELSE result

\* ---------------------------------------------------------------- the heaps
\* The counter dictionaries and the state dictionaries a value refers to.
RECURSIVE CellRefs(_)
CellRefs(v) ==
    CASE v.t = "cell" -> {v.id}
      [] v.t = "tuple" -> UNION {CellRefs(v.v[i]) : i \in 1..Len(v.v)}
      [] v.t = "dict" -> UNION {CellRefs(v.v[i].value) : i \in 1..Len(v.v)}
      [] OTHER -> {}

RECURSIVE FrameRefs(_)
FrameRefs(v) ==
    CASE v.t = "closure" -> {v.frame}
      [] v.t = "tuple" -> UNION {FrameRefs(v.v[i]) : i \in 1..Len(v.v)}
      [] v.t = "dict" -> UNION {FrameRefs(v.v[i].value) : i \in 1..Len(v.v)}
      [] OTHER -> {}

\* Python frees what nothing refers to.  The function frames are dropped unless
\* a function object that is still reachable (from the session's state, frame 1,
\* or from a value in kept) was made in one of them; the counters nothing refers
\* to any more are cleared.
Collect(fr, cl, kept) ==
    LET roots == {fr[1][n] : n \in VarNames} \cup {kept[j] : j \in 1..Len(kept)}
        dropFrames == \A v \in roots : FrameRefs(v) \subseteq {1}
        frs == IF dropFrames THEN <<fr[1]>> ELSE fr
        liveC == UNION {CellRefs(v) : v \in roots}
                     \cup UNION {CellRefs(frs[f][n]) : f \in 2..Len(frs), n \in VarNames}
    IN  [frames |-> frs,
         cells |-> [c \in 1..Len(cl) |-> IF c \in liveC THEN cl[c] ELSE 0]]

\* ---------------------------------------------------------------- programs
\* The source texts given to the executor, as ast.parse yields them: parses is
\* FALSE for a text that raises SyntaxError, body is the Module's body.
Num(n) == Constant(IntV(n))

Text(s) == Constant(StrV(s))

True == Constant(BoolV(TRUE))

Call0(f) == Call(Name(f), <<>>, <<>>)

Call1(f, arg) == Call(Name(f), <<arg>>, <<>>)

Set(id, value) == Assign(<<Name(id)>>, value)

\* 2 + 2 + 1
Five == BinOp(BinOp(Num(2), "Add", Num(2)), "Add", Num(1))

Source(body) == [parses |-> TRUE, body |-> body]

Programs ==
    [ \* x = = 1
      SyntaxError |-> [parses |-> FALSE, body |-> <<>>],
      \* (the empty text)
      Empty |-> Source(<<>>),
      \* 2 + 2
      Arith |-> Source(<<Expr(BinOp(Num(2), "Add", Num(2)))>>),
      \* x = 5 ; x * 2
      ExprResult |-> Source(<<Set("x", Num(5)), Expr(BinOp(Name("x"), "Mult", Num(2)))>>),
      \* helper = 5
      Shadow |-> Source(<<Set("helper", Num(5))>>),
      \* x = helper = 5
      MultiTarget |-> Source(<<Assign(<<Name("x"), Name("helper")>>, Num(5))>>),
      \* helper, y = t
      TupleTarget |-> Source(<<Assign(<<TupleNode(<<Name("helper"), Name("y")>>)>>, Name("t"))>>),
      \* for helper in "ab": x = helper
      ForTarget |-> Source(<<For(Name("helper"), Text(<<"a", "b">>), <<Set("x", Name("helper"))>>)>>),
      \* x = helper
      GetHelper |-> Source(<<Set("x", Name("helper"))>>),
      \* x = KeyError
      GetError |-> Source(<<Set("x", Name("KeyError"))>>),
      \* KeyError = 5 ; x = KeyError
      ShadowError |-> Source(<<Set("KeyError", Num(5)), Set("x", Name("KeyError"))>>),
      \* t = [1, 2] ; x = 0 ; for y in t: x += y ; x
      SumList |-> Source(<<Set("t", ListNode(<<Num(1), Num(2)>>)), Set("x", Num(0)),
                           For(Name("y"), Name("t"), <<AugAssign(Name("x"), "Add", Name("y"))>>),
                           Expr(Name("x"))>>),
      \* x = helper()
      UseHelper |-> Source(<<Set("x", Call0("helper"))>>),
      \* x = 5 ; y = a ; x = 2
      FailSecond |-> Source(<<Set("x", Num(5)), Set("y", Name("a")), Set("x", Num(2))>>),
      \* x = 5 ; for x in "ab": y = a
      FailRebind |-> Source(<<Set("x", Num(5)),
                              For(Name("x"), Text(<<"a", "b">>), <<Set("y", Name("a"))>>)>>),
      \* while True: 1
      Spin |-> Source(<<While(True, <<Expr(Num(1))>>)>>),
      \* while True: x = 2 + 2 + 1
      SpinBig |-> Source(<<While(True, <<Set("x", Five)>>)>>),
      \* y = _operations_count
      Alias |-> Source(<<Set("y", Name("_operations_count"))>>),
      \* x = 2 + 2 + 1 ; _operations_count = y ; while True: x = 2 + 2 + 1
      Swap |-> Source(<<Set("x", Five), Set("_operations_count", Name("y")),
                        While(True, <<Set("x", Five)>>)>>),
      \* _print_outputs = 5
      PrintOutputs |-> Source(<<Set("_print_outputs", Num(5))>>),
      \* _print_outputs = 5 ; helper = 5
      ShadowNoLog |-> Source(<<Set("_print_outputs", Num(5)), Set("helper", Num(5))>>),
      \* _print_outputs = 5 ; final_answer(1)
      FinalNoLog |-> Source(<<Set("_print_outputs", Num(5)), Expr(Call1("final_answer", Num(1)))>>),
      \* x = 5 ; final_answer(x) ; x = 2
      Final |-> Source(<<Set("x", Num(5)), Expr(Call1("final_answer", Name("x"))), Set("x", Num(2))>>),
      \* for y in "ab": final_answer(y) ; x = y
      FinalLoop |-> Source(<<For(Name("y"), Text(<<"a", "b">>),
                                 <<Expr(Call1("final_answer", Name("y"))), Set("x", Name("y"))>>)>>),
      \* def f(): final_answer(1) ; x = 2
      DefFinal |-> Source(<<FunctionDef("f", <<>>, <<>>, "", "",
                                        <<Expr(Call1("final_answer", Num(1))), Set("x", Num(2))>>)>>),
      \* x = f() ; y = 3
      CallF |-> Source(<<Set("x", Call0("f")), Set("y", Num(3))>>),
      \* import math
      ImportMath |-> Source(<<Import("math")>>),
      \* import os
      ImportOs |-> Source(<<Import("os")>>),
      \* print("abc") ; print("d")
      Printing |-> Source(<<Expr(Call1("print", Text(<<"a", "b", "c">>))),
                         Expr(Call1("print", Text(<<"d">>)))>>),
      \* boom()
      Boom |-> Source(<<Expr(Call0("boom"))>>),
      \* for y in "ab": x = y ; break ; a = y
      ForBreak |-> Source(<<For(Name("y"), Text(<<"a", "b">>),
                                <<Set("x", Name("y")), Break, Set("a", Name("y"))>>)>>),
      \* for y in "ab": x = y ; continue ; a = y
      ForContinue |-> Source(<<For(Name("y"), Text(<<"a", "b">>),
                                   <<Set("x", Name("y")), Continue, Set("a", Name("y"))>>)>>),
      \* while True: x = 5 ; break ; a = 5
      WhileBreak |-> Source(<<While(True, <<Set("x", Num(5)), Break, Set("a", Num(5))>>)>>),
      \* y = 1 ; while y: y = 0 ; continue ; a = 5
      WhileContinue |-> Source(<<Set("y", Num(1)),
                                 While(Name("y"), <<Set("y", Num(0)), Continue, Set("a", Num(5))>>)>>),
      \* def f(): break
      DefBreak |-> Source(<<FunctionDef("f", <<>>, <<>>, "", "", <<Break>>)>>),
      \* for y in "ab": f() ; x = y
      LoopCall |-> Source(<<For(Name("y"), Text(<<"a", "b">>),
                                <<Expr(Call0("f")), Set("x", Name("y"))>>)>>),
      \* def f(): x = 5 ; def f(): return x
      DefNest |-> Source(<<FunctionDef("f", <<>>, <<>>, "", "",
                              <<Set("x", Num(5)),
                                FunctionDef("f", <<>>, <<>>, "", "", <<Return(TRUE, Name("x"))>>)>>)>>),
      \* def f(): return x
      DefGet |-> Source(<<FunctionDef("f", <<>>, <<>>, "", "", <<Return(TRUE, Name("x"))>>)>>),
      \* x = 2 ; y = f() ; t = y()
      CallNested |-> Source(<<Set("x", Num(2)), Set("y", Call0("f")), Set("t", Call0("y"))>>),
      \* x = eval ; y = x("1")
      UseEval |-> Source(<<Set("x", Name("eval")), Set("y", Call1("x", Text(<<"1">>)))>>),
      \* def f(): return 1 ; x = f()
      DefCall |-> Source(<<FunctionDef("f", <<>>, <<>>, "", "", <<Return(TRUE, Num(1))>>),
                           Set("x", Call0("f"))>>),
      \* break
      TopBreak |-> Source(<<Break>>),
      \* return 5
      TopReturn |-> Source(<<Return(TRUE, Num(5))>>) ]

ProgramNames == DOMAIN Programs

\* ---------------------------------------------------------------- the executor
VARIABLES
    frames,                   \* the state dictionaries; frames[1] is self.state
    cells,                    \* the counter dictionaries
    static_tools,             \* self.static_tools: None or its keys
    authorized_imports,       \* self.authorized_imports
    max_print_outputs_length, \* self.max_print_outputs_length
    pc,                       \* "idle", or "running" inside evaluate_python_code
    code,                     \* the program of the call under way
    i,                        \* the top-level statements evaluated so far
    result,                   \* evaluate_python_code's local `result`
    tools,                    \* evaluate_python_code's copy of static_tools
    obs,                      \* what the call under way (or the last one) did
    before,                   \* self.state before the statement evaluated last
    outcome,                  \* how the last call of the executor ended
    runs,                     \* calls of the executor made
    sends,                    \* calls of send_variables made
    handler                   \* mcp_server.run_python: where each request's coroutine is

vars ==
    <<frames, cells, static_tools, authorized_imports, max_print_outputs_length,
      pc, code, i, result, tools, obs, before, outcome, runs, sends, handler>>

\* self.state.
state == frames[1]

NoOutcome ==
    [kind |-> "none", output |-> None, logs |-> <<>>, is_final_answer |-> FALSE,
     error |-> "", cause |-> "", msg |-> ""]

\* __call__ returned (output, logs, is_final_answer).
Returned(output, logs, is_final_answer) ==
    [kind |-> "return", output |-> output, logs |-> logs,
     is_final_answer |-> is_final_answer, error |-> "", cause |-> "", msg |-> ""]

\* __call__ raised an exception of class error; for the InterpreterError of
\* lines 488-490, cause and msg are the class and the message of the exception
\* it reports.
Raised(error, cause, msg) ==
    [kind |-> "raise", output |-> None, logs |-> <<>>, is_final_answer |-> FALSE,
     error |-> error, cause |-> cause, msg |-> msg]

\* A request no client has sent yet.  at is the position of the request's
\* coroutine in run_python, ran the outcome of its call of the executor,
\* response what run_python gave back.
NoRequest == [at |-> "none", code |-> "Empty", ran |-> NoOutcome, response |-> [kind |-> "none"]]

\* The registries a host gives the executor.
Registries == {HostTools}

\* LocalPythonExecutor.__init__, lines 510-516, as mcp_server.py:28 and the tests
\* construct the executor: additional_authorized_imports=[] and no
\* max_print_outputs_length.
Init ==
    /\ frames = <<EmptyState>>
    /\ cells = <<>>
    /\ static_tools = [isNone |-> TRUE, keys |-> {}]
    /\ authorized_imports = BASE_BUILTIN_MODULES \cup {}
    /\ max_print_outputs_length = DEFAULT_MAX_LEN_OUTPUT
    /\ pc = "idle"
    /\ code = "Empty"
    /\ i = 0
    /\ result = Unbound
    /\ tools = {}
    /\ obs = Observed
    /\ before = EmptyState
    /\ outcome = NoOutcome
    /\ runs = 0
    /\ sends = 0
    /\ handler = [r \in 1..MaxRequests |-> NoRequest]

\* The names of VarNames in a fixed order.
NameSeq ==
    <<"x", "y", "a", "f", "t", "helper", "final_answer", "math", "self", "__class__",
      "KeyError", "eval", "_operations_count", "_print_outputs">>

\* The heaps after Python has freed what nothing refers to: the host holds the
\* last output, the call under way its result; `before` is kept for comparison.
Tidy(fr, cl, out, res, bef) ==
    Collect(fr, cl, <<out, res>> \o [j \in 1..Len(NameSeq) |-> bef[NameSeq[j]]])

\* The mappings a host gives send_variables: a tuple, or the output of the last
\* call (a function object, say) under the name f.
Variables ==
    {[t |-> TupleV(<<IntV(1), IntV(2)>>)]}
        \cup (IF outcome.kind = "return" THEN {[f |-> outcome.output]} ELSE {})

\* LocalPythonExecutor.send_variables, line 547: self.state.update(variables).
send_variables(variables) ==
    /\ pc = "idle"
    /\ sends < MaxSends
    /\ LET updated == [n \in VarNames |->
                         IF n \in DOMAIN variables THEN variables[n] ELSE state[n]]
           h == Tidy([frames EXCEPT ![1] = updated], cells, outcome.output, result, before)
       IN  /\ frames' = h.frames
           /\ cells' = h.cells
    /\ sends' = sends + 1
    /\ UNCHANGED <<static_tools, authorized_imports, max_print_outputs_length,
                   pc, code, i, result, tools, obs, before, outcome, runs, handler>>

SendVariables == \E variables \in Variables : send_variables(variables)

\* The host sets self.static_tools (None after __init__, line 516), the registry
\* __call__ hands to evaluate_python_code (line 531), before the first call.
SetStaticTools ==
    /\ pc = "idle"
    /\ static_tools.isNone
    /\ runs = 0
    /\ \E registry \in Registries : static_tools' = [isNone |-> FALSE, keys |-> registry]
    /\ UNCHANGED <<frames, cells, authorized_imports, max_print_outputs_length,
                   pc, code, i, result, tools, obs, before, outcome, runs, sends, handler>>

\* __call__ and evaluate_python_code up to the loop over the statements, lines
\* 446-468: a text that does not parse raises InterpreterError before the state
\* is touched; otherwise the two reserved keys are bound afresh and static_tools
\* is copied (final_answer, when among its keys, is wrapped: see ToolApply).
Start(p) ==
    /\ pc = "idle"
    /\ runs < MaxRuns
    /\ runs' = runs + 1
    /\ code' = p
    /\ IF ~Programs[p].parses
       THEN /\ outcome' = Raised("InterpreterError", "SyntaxError", "Code parsing failed")
            /\ UNCHANGED <<frames, cells, pc, i, result, tools, obs, before>>
       ELSE /\ frames' = [frames EXCEPT
                             ![1]["_print_outputs"] = PrintContainer(<<>>),
                             ![1]["_operations_count"] = Cell(Len(cells) + 1)]
            /\ cells' = Append(cells, 0)
            /\ tools' = static_tools.keys
            /\ pc' = "running"
            /\ i' = 0
            /\ result' = Unbound
            /\ obs' = Observed
            /\ before' = frames'[1]
            /\ outcome' = NoOutcome
    /\ UNCHANGED <<static_tools, authorized_imports, max_print_outputs_length, sends>>

Run == \E p \in ProgramNames : Start(p) /\ UNCHANGED handler

\* The log text written into a dictionary of its own instead of the state.
SetValueFresh(st, max_length) ==
    [EmptyState EXCEPT
        !["_operations_count"] = st["_operations_count"],
        !["_print_outputs"] = IF st["_print_outputs"].t = "printc"
                              THEN PrintContainer(truncate_content(StrOf(st["_print_outputs"]), max_length))
                              ELSE st["_print_outputs"]]

\* state["_print_outputs"].value = truncate_content(str(state["_print_outputs"]), ...)
\* (lines 473, 479, 485): whether the attribute can be set (a PrintContainer or a
\* function object; any other object raises AttributeError), and the state after.
CanSetValue(st) == st["_print_outputs"].t \in {"printc", "closure", "tool"}

SetValue(st, max_length) ==
    IF st["_print_outputs"].t = "printc"
    THEN [st EXCEPT !["_print_outputs"] =
             PrintContainer(truncate_content(StrOf(@), max_length))]
    ELSE st

\* The end of evaluate_python_code, lines 473-490, and of __call__, lines
\* 536-537, for a state st.  how is "done" when the loop over the statements
\* ended, and then res is the local `result` (Unbound when there was no
\* statement, so that `return result` raises UnboundLocalError, and the handler
\* of line 484 in turn, `node` being unbound as well); "final" when
\* FinalAnswerException was raised, and "exception" for any other exception.
\* AttributeError raised by a handler leaves evaluate_python_code as it is.
Finish(st, how, res, exc, max_length) ==
    LET once == SetValue(st, max_length)
        twice == SetValue(once, max_length)
    IN  CASE ~CanSetValue(st) /\ (how # "exception" \/ IsException(exc)) ->
                [state |-> st, outcome |-> Raised("AttributeError", "", "object has no attribute 'value'")]
          [] how = "done" /\ CanSetValue(st) /\ res = Unbound ->
                [state |-> twice, outcome |-> Raised("UnboundLocalError", "", "cannot access local variable")]
          [] how = "done" /\ CanSetValue(st) /\ res # Unbound ->
                [state |-> once, outcome |-> Returned(res, StrOf(once["_print_outputs"]), FALSE)]
          [] how = "final" /\ CanSetValue(st) ->
                [state |-> once, outcome |-> Returned(exc.value, StrOf(once["_print_outputs"]), TRUE)]
          [] how = "exception" /\ ~IsException(exc) ->
                [state |-> st, outcome |-> Raised(exc.type, "", exc.msg)]
          [] how = "exception" /\ IsException(exc) /\ CanSetValue(st) ->
                [state |-> once, outcome |-> Raised("InterpreterError", exc.type, exc.msg)]

\* The call ends: the outcome goes to the host.
Leave(fr, cl, fin, bef) ==
    LET h == Tidy([fr EXCEPT ![1] = fin.state], cl, fin.outcome.output, Unbound, bef)
    IN  /\ frames' = h.frames
        /\ cells' = h.cells
        /\ outcome' = fin.outcome
        /\ before' = bef
        /\ result' = Unbound
        /\ pc' = "idle"

\* One turn of the loop of lines 471-472: the next top-level statement is
\* evaluated in self.state; an exception ends the call through the handlers of
\* lines 478-490.
Step ==
    /\ pc = "running"
    /\ i < Len(Programs[code].body)
    /\ LET r == Eval(Programs[code].body[i + 1], NewEnv(frames, cells, tools, obs), 1)
       IN  /\ obs' = ObsOf(r.env)
           /\ IF r.ok
              THEN LET h == Tidy(r.env.frames, r.env.cells, None, r.v, state)
                   IN  /\ frames' = h.frames
                       /\ cells' = h.cells
                       /\ result' = r.v
                       /\ before' = state
                       /\ i' = i + 1
                       /\ UNCHANGED <<pc, outcome>>
              ELSE /\ Leave(r.env.frames, r.env.cells,
                            Finish(r.env.frames[1],
                                   IF r.exc.type = "FinalAnswerException" THEN "final" ELSE "exception",
                                   result, r.exc, max_print_outputs_length),
                            state)
                   /\ UNCHANGED i
    /\ UNCHANGED <<static_tools, authorized_imports, max_print_outputs_length,
                   code, tools, runs, sends, handler>>

\* The loop is over, lines 473-477 (and the handler of line 484 when they raise).
Done ==
    /\ pc = "running"
    /\ i = Len(Programs[code].body)
    /\ Leave(frames, cells, Finish(state, "done", result, NoExc, max_print_outputs_length), before)
    /\ UNCHANGED <<static_tools, authorized_imports, max_print_outputs_length,
                   code, i, tools, obs, runs, sends, handler>>

Next == Run \/ Step \/ Done \/ SendVariables \/ SetStaticTools

Spec == Init /\ [][Next]_vars

\* ---------------------------------------------------------------- the MCP server
\* mcp_server.py: one module-level executor (line 28) and the tool run_python, a
\* coroutine function the server's event loop runs for every request.  A
\* coroutine keeps the loop until it returns or reaches a suspension point (an
\* await that yields).
\* The code strings the clients send.
RequestCodes == {"Arith", "ExprResult", "FailSecond", "SyntaxError", "Empty", "Spin"}

\* run_python with an await right after its first line.
SuspendsAtEntry(at) == at = "entered"

\* Whether run_python gives up the event loop at a position: lines 65-84 hold no
\* await, and __call__ is an ordinary function.
Suspends(at) == FALSE

\* A coroutine of run_python is on the event loop and has not given it up.
Busy == \E r \in 1..MaxRequests : handler[r].at \in {"entered", "calling"} /\ ~Suspends(handler[r].at)

\* `result, logs = executor(code)` and lines 78-84, for the outcome out of the
\* call: an exception of the executor leaves run_python as it is; the tuple
\* __call__ returns is unpacked into the two targets.
run_python(out) ==
    IF out.kind = "raise" THEN [kind |-> "error", error |-> out.error]
    ELSE LET returned == <<out.output, out.logs, BoolV(out.is_final_answer)>>
         IN  IF Len(returned) # 2
             THEN [kind |-> "error", error |-> "ValueError"]
             ELSE [kind |-> "dict", result |-> returned[1], logs |-> returned[2]]

\* A client sends a request; the server schedules run_python(code).
Receive(r) ==
    /\ handler[r].at = "none"
    /\ \E c \in RequestCodes : handler' = [handler EXCEPT ![r].at = "queued", ![r].code = c]
    /\ UNCHANGED <<frames, cells, static_tools, authorized_imports, max_print_outputs_length,
                   pc, code, i, result, tools, obs, before, outcome, runs, sends>>

\* The event loop, free, starts the coroutine of a request: line 65.
Enter(r) ==
    /\ handler[r].at = "queued"
    /\ ~Busy
    /\ handler' = [handler EXCEPT ![r].at = "entered"]
    /\ UNCHANGED <<frames, cells, static_tools, authorized_imports, max_print_outputs_length,
                   pc, code, i, result, tools, obs, before, outcome, runs, sends>>

\* Line 76: executor(code) is called.
CallExecutor(r) ==
    /\ handler[r].at = "entered"
    /\ \A q \in 1..MaxRequests \ {r} : handler[q].at \in {"entered", "calling"} => Suspends(handler[q].at)
    /\ Start(handler[r].code)
    /\ handler' = [handler EXCEPT ![r].at = "calling"]

\* The call of the executor goes on, on the event loop.
Calling == \E r \in 1..MaxRequests : handler[r].at = "calling"

Evaluate == Calling /\ Step

Complete == Calling /\ Done

\* Line 76 after the call, and lines 78-84: the coroutine ends.
Respond(r) ==
    /\ handler[r].at = "calling"
    /\ pc = "idle"
    /\ handler' = [handler EXCEPT ![r].at = "done", ![r].ran = outcome,
                                   ![r].response = run_python(outcome)]
    /\ UNCHANGED <<frames, cells, static_tools, authorized_imports, max_print_outputs_length,
                   pc, code, i, result, tools, obs, before, outcome, runs, sends>>

ServerNext ==
    \/ \E r \in 1..MaxRequests : Receive(r)
    \/ \E r \in 1..MaxRequests : Enter(r)
    \/ \E r \in 1..MaxRequests : CallExecutor(r)
    \/ Evaluate
    \/ Complete
    \/ \E r \in 1..MaxRequests : Respond(r)

ServerSpec == Init /\ [][ServerNext]_vars

\* ---------------------------------------------------------------- properties
\* C1: in every call of the executor at most MAX_OPERATIONS nodes are evaluated,
\* whatever names the program assigns.
C1_StepCeiling == obs.nodes <= MAX_OPERATIONS

\* C2 as stated: the body of a While loop runs at most MAX_WHILE_ITERATIONS times
\* in one evaluation of the loop.
C2_AtMostCeilingRuns == obs.whileRuns <= MAX_WHILE_ITERATIONS

\* C2 amended: the body of a While loop runs at most MAX_WHILE_ITERATIONS + 1 times
\* in one evaluation of the loop, and a call that evaluated a loop whose test
\* stays true and whose body raises no control signal ends with an error; when
\* the error is the evaluator's, it is the iteration-limit error after exactly
\* MAX_WHILE_ITERATIONS + 1 body runs, or else the step-limit error.
C2_WhileLimit ==
    /\ obs.whileRuns <= MAX_WHILE_ITERATIONS + 1
    /\ (pc = "idle" /\ code \in {"Spin", "SpinBig", "Swap"} /\ obs.whileRuns > 0) =>
          /\ outcome.kind = "raise"
          /\ outcome.error = "InterpreterError" =>
                /\ outcome.cause = "InterpreterError"
                /\ outcome.msg \in {"Maximum number of iterations in While loop exceeded",
                                    "Reached the max number of operations"}
                /\ outcome.msg = "Maximum number of iterations in While loop exceeded"
                      => obs.whileRuns = MAX_WHILE_ITERATIONS + 1
                /\ obs.whileRuns <= MAX_WHILE_ITERATIONS
                      => outcome.msg = "Reached the max number of operations"

\* C2: a call ended by the iteration-limit error of a While loop.
C2_LimitReached ==
    /\ pc = "idle"
    /\ code = "Spin"
    /\ outcome.msg = "Maximum number of iterations in While loop exceeded"
    /\ obs.whileRuns = MAX_WHILE_ITERATIONS + 1

\* C3: with a registry of tools set, no name of the registry is bound in the
\* session's state by an assignment of a program.
C3_NoToolNameBound ==
    ~static_tools.isNone => \A n \in static_tools.keys \cap VarNames : state[n] = Unbound

\* C4: a call whose program has the statement `helper = 5`, helper being a key of
\* static_tools, fails with the InterpreterError that refuses the assignment, and
\* leaves helper as it was in the state.
C4_ShadowRefused ==
    (pc = "idle" /\ runs > 0 /\ code \in {"Shadow", "ShadowNoLog"} /\ "helper" \in static_tools.keys) =>
        /\ outcome.kind = "raise"
        /\ outcome.error = "InterpreterError"
        /\ outcome.msg = "Cannot assign to name: would erase the existing tool"
        /\ state["helper"] = before["helper"]

\* C5: at the start of a call, every name bound in the session's state (to a value
\* that is not the executor's own counter or log object) keeps its value, the
\* step counter is zero and the log is empty.
C5_KeptAtStart ==
    [][(pc = "idle" /\ pc' = "running") =>
          /\ \A n \in VarNames :
                (state[n] # Unbound /\ state[n].t \notin {"cell", "printc"}) => state'[n] = state[n]
          /\ state'["_operations_count"].t = "cell"
          /\ cells'[state'["_operations_count"].id] = 0
          /\ state'["_print_outputs"] = PrintContainer(<<>>)]_vars

\* C6 as stated: when a top-level statement fails, the session's state after the
\* call holds every binding made by the statements of the call before it.
C6_HoldsEveryBinding ==
    [][(pc = "running" /\ pc' = "idle" /\ i < Len(Programs[code].body) /\ outcome'.kind = "raise") =>
          \A n \in obs'.assigned : state'[n] = state[n]]_vars

\* C6 amended: when a top-level statement fails, the session's state after the
\* call holds every binding made by the statements of the call before it, except
\* for the names the failing statement itself bound before it failed; no later
\* statement of the call is evaluated.
C6_NoRollback ==
    [][/\ (pc = "running" /\ pc' = "idle" /\ i < Len(Programs[code].body) /\ outcome'.kind = "raise") =>
             /\ \A n \in obs'.assigned \ obs'.written : state'[n] = state[n]
             /\ i' = i
       /\ (pc = "idle" /\ pc' = "idle") => (i' = i /\ obs' = obs)]_vars

\* C6: a call whose second or later statement failed, with a binding of an
\* earlier statement that the failing statement did not touch.
C6_FailedAfterBinding ==
    /\ pc = "idle"
    /\ outcome.kind = "raise"
    /\ i >= 1
    /\ i < Len(Programs[code].body)
    /\ \E n \in obs.assigned \ obs.written : state[n] # Unbound

\* C7: a call of the executor that raises, raises InterpreterError.
C7_OnlyInterpreterError == outcome.kind = "raise" => outcome.error = "InterpreterError"

\* C8: a call during which the final_answer tool was called returns at that
\* point with is_final_answer true, no node evaluated after the call of the tool
\* and the statements after it left alone; a call that returns without it
\* evaluated every statement and has is_final_answer false.
C8_FinalAnswer ==
    (pc = "idle" /\ runs > 0 /\ Programs[code].parses) =>
        /\ obs.finalAt # -1 =>
              /\ outcome.kind = "return"
              /\ outcome.is_final_answer
              /\ outcome.output.t = "tuple"
              /\ obs.nodes = obs.finalAt
        /\ (obs.finalAt = -1 /\ outcome.kind = "return") =>
              /\ ~outcome.is_final_answer
              /\ i = Len(Programs[code].body)

\* C9: `import math`, math being a member of authorized_imports, succeeds and
\* binds math in the session's state.
C9_AuthorizedImport ==
    (pc = "idle" /\ runs > 0 /\ code = "ImportMath" /\ "math" \in authorized_imports) =>
        /\ outcome.kind = "return"
        /\ state["math"] # Unbound

\* C10: the logs a call returns are the text the program printed during the
\* call, cut to max_print_outputs_length by truncate_content.
C10_LogsArePrinted ==
    outcome.kind = "return" =>
        outcome.logs = truncate_content(obs.printed, max_print_outputs_length)

\* C11: a request whose call of the executor returned is answered by run_python
\* with a dictionary holding the call's output under result and its logs under
\* logs.
C11_ResponseHoldsResult ==
    \A r \in 1..MaxRequests :
        (handler[r].at = "done" /\ handler[r].ran.kind = "return") =>
            handler[r].response =
                [kind |-> "dict", result |-> handler[r].ran.output, logs |-> handler[r].ran.logs]

\* C19: at most one request's run_python is between its entry and its return at
\* any time, whatever requests are waiting, and a call of the executor under way
\* belongs to that request.
C19_OneCallInFlight ==
    /\ Cardinality({r \in 1..MaxRequests : handler[r].at \in {"entered", "calling"}}) <= 1
    /\ pc = "running" => Calling

\* C19: a call of the executor under way for one request while another request
\* waits.
C19_RequestWaits ==
    \E r, q \in 1..MaxRequests :
        /\ r # q
        /\ handler[r].at = "calling"
        /\ pc = "running"
        /\ handler[q].at = "queued"

\* C12: the program that binds a list literal, sums it in a For loop with `+=`
\* and ends with the name of the total returns the sum, with empty logs.
C12_SumOfList ==
    (pc = "idle" /\ runs > 0 /\ code = "SumList") =>
        /\ outcome.kind = "return"
        /\ outcome.output = IntV(3)
        /\ outcome.logs = <<>>

\* C13: a statement `target = name` binds target to the value name has in the
\* state when the state has the name, otherwise to the tool of that name,
\* otherwise to the exception class of that name, and otherwise the call fails
\* with the error that the variable is not defined (which the call reports
\* whenever its handler can store the log text); no other binding of the state
\* changes.
C13_NameResolution ==
    [][(pc = "running" /\ i < Len(Programs[code].body)) =>
         LET stmt == Programs[code].body[i + 1]
         IN  (/\ stmt.k = "Assign"
              /\ Len(stmt.targets) = 1
              /\ stmt.targets[1].k = "Name"
              /\ stmt.targets[1].id \notin tools
              /\ stmt.value.k = "Name") =>
                LET id == stmt.value.id
                    target == stmt.targets[1].id
                    found == IF state[id] # Unbound THEN state[id]
                             ELSE IF id \in tools THEN Tool(id)
                             ELSE IF id \in ERRORS THEN ErrType(id)
                             ELSE Unbound
                IN  IF found # Unbound
                    THEN /\ pc' = "running"
                         /\ i' = i + 1
                         /\ state'[target] = found
                         /\ \A n \in VarNames \ {target} : state'[n] = state[n]
                    ELSE /\ pc' = "idle"
                         /\ outcome'.kind = "raise"
                         /\ CanSetValue(state) =>
                               /\ outcome'.error = "InterpreterError"
                               /\ outcome'.msg = "The variable is not defined"
                         /\ \A n \in VarNames : state'[n] = state[n]]_vars

\* C13: a name that the state and static_tools both have was resolved to the
\* value of the state.
C13_StateBeforeTool ==
    /\ pc = "idle"
    /\ code = "GetHelper"
    /\ "helper" \in static_tools.keys
    /\ outcome.kind = "return"
    /\ state["helper"] # Unbound
    /\ state["x"] = state["helper"]

\* C14 as stated: a Break raised by a statement of a loop's body ends the loop
\* at once and the loop, For or While, yields the value of the body statement
\* evaluated last.
C14_BothLoopsYieldResult ==
    (pc = "idle" /\ runs > 0) =>
        /\ code = "ForBreak" => (outcome.kind = "return" /\ outcome.output = state["x"])
        /\ code = "WhileBreak" => (outcome.kind = "return" /\ outcome.output = state["x"])

\* C14: a Break raised by a statement of a loop's body ends the loop at once,
\* and then a For loop yields the value of the body statement evaluated last and
\* a While loop yields None; a Continue skips the rest of the body only, and the
\* loop goes on with the next element or with the test.  No statement after the
\* Break or the Continue binds a, and the step counts are those of the nodes
\* that run when no later statement, iteration or test does.
C14_LoopControl ==
    (pc = "idle" /\ runs > 0) =>
        /\ state["a"] = Unbound
        /\ code = "ForBreak" =>
              /\ outcome.kind = "return"
              /\ outcome.output = StrV(<<"a">>)
              /\ state["x"] = StrV(<<"a">>)
              /\ state["y"] = StrV(<<"a">>)
              /\ obs.nodes = 5
        /\ code = "ForContinue" =>
              /\ outcome.kind = "return"
              /\ outcome.output = StrV(<<"b">>)
              /\ state["x"] = StrV(<<"b">>)
              /\ state["y"] = StrV(<<"b">>)
              /\ obs.nodes = 8
        /\ code = "WhileBreak" =>
              /\ outcome.kind = "return"
              /\ outcome.output = None
              /\ state["x"] = IntV(5)
              /\ obs.whileRuns = 1
              /\ obs.nodes = 5
        /\ code = "WhileContinue" =>
              /\ outcome.kind = "return"
              /\ outcome.output = None
              /\ state["y"] = IntV(0)
              /\ obs.whileRuns = 1
              /\ obs.nodes = 8

\* C14: a While loop was left by a Break after its body had bound x.
C14_WhileBroken ==
    /\ pc = "idle"
    /\ code = "WhileBreak"
    /\ outcome.kind = "return"
    /\ state["x"] = IntV(5)
    /\ obs.whileRuns = 1

\* C15: a Break raised in a function body that has no loop around it, or at top
\* level, ends the run with an error; it never ends a loop of the code that
\* called the function.
C15_BreakStopsAtCall ==
    (pc = "idle" /\ runs > 0) =>
        /\ code = "TopBreak" => outcome.kind = "raise"
        /\ (/\ code = "LoopCall"
            /\ state["f"].t = "closure"
            /\ state["f"].def.body = <<Break>>) => outcome.kind = "raise"

\* C16 as stated: the body of a called function sees the bindings current where
\* it is called: y() gives the caller's x.
C16_CallSiteCopy ==
    (/\ pc = "idle"
     /\ runs > 0
     /\ code = "CallNested"
     /\ before["f"].t = "closure"
     /\ before["f"].def = Programs["DefNest"].body[1]
     /\ outcome.kind = "return") => outcome.output = state["x"]

\* C16: a called function runs in a copy, taken when it is called, of the state
\* it was defined in.  After x = 2 ; y = f(), whatever function f was, nothing
\* its body bound is in the caller's state (x is still 2); a function that
\* returns x gives the x of the state it was defined in, which for a function
\* defined at top level is the x bound just before the call; and the function
\* the body of f defined, called as y(), sees the x of f's body and not the
\* caller's.
C16_DefinitionSiteCopy ==
    (/\ runs > 0
     /\ code = "CallNested"
     /\ before["f"].t = "closure"
     /\ i >= 2) =>
        /\ state["x"] = IntV(2)
        /\ (pc = "running" /\ before["f"].def = Programs["DefGet"].body[1]) =>
              /\ state["y"] = frames[before["f"].frame]["x"]
              /\ before["f"].frame = 1 => state["y"] = IntV(2)
        /\ before["f"].def = Programs["DefNest"].body[1] =>
              /\ state["y"].t = "closure"
              /\ state["y"].frame # 1
              /\ frames[state["y"].frame]["x"] = IntV(5)
              /\ pc = "idle" => (outcome.kind = "return" /\ outcome.output = IntV(5))

\* C16: a function defined in the body of another one was called at top level,
\* where x has another value than in the state it was defined in.
C16_InnerCalled ==
    /\ pc = "idle"
    /\ code = "CallNested"
    /\ outcome.kind = "return"
    /\ state["y"].t = "closure"
    /\ state["x"] = IntV(2)
    /\ state["t"] = IntV(5)

\* C17: no state binds a name to a callable of DANGEROUS_FUNCTIONS, and a program
\* that calls one ends with an error instead of having it run.
C17_DenylistUnreachable ==
    /\ \A n \in VarNames :
          state[n].t = "tool" => QualifiedName(state[n].name) \notin DANGEROUS_FUNCTIONS
    /\ (pc = "idle" /\ runs > 0 /\ code = "UseEval") => outcome.kind = "raise"

\* C18: the evaluation of a FunctionDef statement gives the function object as
\* the statement's value and leaves the state as it was, the function's name
\* unbound; unless the host has injected a value for f, a call of f after the
\* definition, in the same call of the executor or in a later one, ends with
\* InterpreterError "The variable `f` is not defined".
C18_FunctionDefBindsNothing ==
    [][/\ (/\ pc = "running"
           /\ i < Len(Programs[code].body)
           /\ Programs[code].body[i + 1].k = "FunctionDef") =>
              /\ i' = i + 1
              /\ result' = Closure(Programs[code].body[i + 1], 1)
              /\ state' = state
       /\ (/\ pc' = "idle"
           /\ runs' > 0
           /\ sends' = 0
           /\ code' \in {"DefCall", "CallF"}) =>
              /\ state'["f"] = Unbound
              /\ outcome' = Raised("InterpreterError", "InterpreterError",
                                   "The variable is not defined")]_vars

\* C18: f was defined and then called in one call of the executor, no value for
\* f injected, and the call of f found the name undefined.
C18_DefinedNameUnbound ==
    /\ pc = "idle"
    /\ code = "DefCall"
    /\ i = 1
    /\ sends = 0
    /\ state["f"] = Unbound
    /\ outcome.kind = "raise"
    /\ outcome.msg = "The variable is not defined"

====
